---- MODULE Spec2Model ----
(***************************************************************************)
(* Booking lifecycle and completion verification of the WeCare server:    *)
(* routes/bookings.js, routes/admin.js (booking status), models/Booking.js *)
(* Time is counted in minutes.  A calendar date is a day number; the       *)
(* instant of its local midnight is date * MinutesPerDay.                  *)
(***************************************************************************)
EXTENDS Integers, Sequences, FiniteSets, TLC

\* ---------------------------------------------------------------- bounds
MaxBookings == 2
MaxCompletions == 2
MaxOps      == 4
MaxFine     == 2
MaxTokens   == 1
MaxInflight == 2

\* ------------------------------------------------------ program constants
MinutesPerHour == 60
MinutesPerDay  == 1440
CutoffHours    == 4
OtpTtl         == 10
QrTtl          == 1440
NoTime         == -1
NoToken        == 0

Statuses == {"pending", "confirmed", "in-progress", "completed", "cancelled", "rejected"}
\* a set of statuses that also lets a pending booking be completed
Completable_WithPending == {"pending", "confirmed", "in-progress"}
Completable == {"confirmed", "in-progress"}
Blocking == {"pending", "confirmed"}
Terminal == {"completed", "cancelled", "rejected"}

\* ------------------------------------------------------------ input sets
\* A time string "h:mm" / "h:mm AM" is the record of its hour digits, its
\* minute digits and its meridian suffix ("" when there is none).
T(h, m, mer) == [h |-> h, m |-> m, mer |-> mer]
\* the bookings requested: <<startTime, endTime, totalAmount>>, all on day 1
Offers == { <<T(9, 0, ""), T(17, 0, ""), 500>>,
            <<T(4, 0, "PM"), T(18, 0, ""), 300>>,
            <<T(5, 0, "pm"), T(6, 0, "PM"), 300>> }
OtpCodes == {"111111", "222222"}
\* the code of a verification request, "" when the body has none
VerifyCodes == OtpCodes \cup {""}
\* the proof image of a completion request, "" when the body has none
Images == {"img", ""}
ParentInputs == {"p1", "zz"}
NannyInputs == {"n1", "p1", "zz"}
\* two providers and two dates, for the requests that book one after the other
BookNannies == NannyInputs \cup {"n2"}
BookDates == {1, 2}
StatusInputs == Statuses \cup {"bogus"}
\* the admin route destructures req.body unchecked: a body without a status
\* field gives status = undefined
AdminStatusInputs == StatusInputs \cup {"undefined"}
ActorInputs == {""}
ReasonInputs == {""}
\* the first instant of the model: 241 minutes before 09:00 on day 1
NowInit == 1 * MinutesPerDay + 9 * MinutesPerHour - (CutoffHours * MinutesPerHour + 1)
\* the instants at which requests arrive: minute by minute around the
\* cancellation cutoff of that booking
Clock == {NowInit + k : k \in 0..MaxFine}

VARIABLES bookings, users, transactions, reviews, otps, spent, now, nextToken, resp,
          ledger, redeemed,
          issued, inflight, quota

vars == <<bookings, users, transactions, reviews, otps, spent, now, nextToken, resp,
          ledger, redeemed,
          issued, inflight, quota>>

\* ---------------------------------------------------------------- schema
\* the phone numbers of the registered accounts: a nanny who also runs an
\* elder-care service, and a parent who also runs a daycare
Phones == {"9000000001", "9000000002"}
NannyPhones == {"9000000001"}
DaycarePhones == {"9000000002"}
ElderPhones == {"9000000001"}
Kinds == {"auto", "daycare", "eldercare"}
LoginTtl == 5
RecordTtl == 10
MaxAttempts == 5
\* the OTP collection holds at most one record for a phone number; otp is
\* "null" when it holds none, expiresAt is NoTime when the record has none
NoOtp == [otp |-> "null", expiresAt |-> NoTime, isUsed |-> FALSE, attempts |-> 0,
          createdAt |-> NoTime]

NoCancellation == [cancelledBy |-> "null", reason |-> "", cancelledAt |-> FALSE]
NoPayment == [status |-> "pending", method |-> "cash", paidAt |-> FALSE]
NoVerification == [otp |-> "null", otpExpiry |-> NoTime, otpVerified |-> FALSE,
                   verificationImage |-> "null", verifiedAt |-> FALSE,
                   qrToken |-> NoToken, qrExpiry |-> NoTime]

\* rating.byParent; score 0 when the booking is not rated
NoRating == [score |-> 0, ratedAt |-> FALSE]

NewBooking(parentId, nannyId, date, startTime, endTime, totalAmount) ==
  [parentId |-> parentId, nannyId |-> nannyId, date |-> date,
   startTime |-> startTime, endTime |-> endTime, totalAmount |-> totalAmount,
   status |-> "pending", cancellation |-> NoCancellation, payment |-> NoPayment,
   rating |-> NoRating, completionVerification |-> NoVerification,
   confirmedAt |-> FALSE, completedAt |-> FALSE]

\* rating is kept in tenths
NoProfile == [totalEarnings |-> 0, availableBalance |-> 0, withdrawnAmount |-> 0,
              totalJobsCompleted |-> 0, rating |-> 0, totalReviews |-> 0]
InitUsers == [u \in {"p1", "n1", "n2"} |->
                [role |-> IF u = "p1" THEN "parent" ELSE "nanny",
                 nannyProfile |-> NoProfile]]

\* history kept for the properties, per booking: completions and codes issued
NoLedger == [credits |-> 0, okOtp |-> 0, okQr |-> 0, passed |-> 0]
NoIssued == [last |-> "null", prev |-> "null", reissued |-> FALSE, at |-> NoTime,
             qrAt |-> NoTime]
Idle == [op |-> "idle", phase |-> "idle", b |-> 0, arg |-> 0]
\* the answer to a request: HTTP status and which branch produced it
R(op, id, arg, code, msg) == [op |-> op, id |-> id, arg |-> arg, code |-> code, msg |-> msg]
\* created: the transaction records the request inserts
\* reviewed: the review records it inserts
Out(db, us, rs) ==
  [bookings |-> db, users |-> us, resp |-> rs, created |-> <<>>, reviewed |-> <<>>]
Accepted(out) == out.resp.code \in {200, 201}

\* ------------------------------------------------------- time normalizers
toUpperCase(mer) == CASE mer = "am" -> "AM" [] mer = "pm" -> "PM" [] OTHER -> mer
match12(t) == toUpperCase(t.mer) \in {"AM", "PM"}

\* a normalizer that adds 12 to every PM hour, noon included
parseTimeStr_NoNoon(t) ==
  IF match12(t)
    THEN LET meridian == toUpperCase(t.mer) IN
         IF meridian = "PM" THEN t.h + 12
         ELSE IF meridian = "AM" /\ t.h = 12 THEN 0
         ELSE t.h
    ELSE t.h

parseTimeStr(t) ==
  IF match12(t)
    THEN LET meridian == toUpperCase(t.mer) IN
         IF meridian = "PM" /\ t.h # 12 THEN t.h + 12
         ELSE IF meridian = "AM" /\ t.h = 12 THEN 0
         ELSE t.h
    ELSE t.h

existingBookings(db, nannyId, date) ==
  {i \in DOMAIN db : /\ db[i].nannyId = nannyId
                     /\ db[i].date = date
                     /\ db[i].status \in Blocking}

\* an overlap test on closed intervals, which touching intervals meet
Overlaps_Closed(newStart, newEnd, existStart, existEnd) ==
  newStart <= existEnd /\ newEnd >= existStart

Overlaps(newStart, newEnd, existStart, existEnd) ==
  newStart < existEnd /\ newEnd > existStart

hasOverlap(db, nannyId, date, startTime, endTime) ==
  \E i \in existingBookings(db, nannyId, date) :
     Overlaps(parseTimeStr(startTime), parseTimeStr(endTime),
              parseTimeStr(db[i].startTime), parseTimeStr(db[i].endTime))

\* start instant composed by PUT /:id/cancel from date and start time
cancelStartMinutes(t) ==
  IF match12(t)
    THEN LET meridian == toUpperCase(t.mer) IN
         (IF meridian = "PM" /\ t.h # 12 THEN t.h + 12
          ELSE IF meridian = "AM" /\ t.h = 12 THEN 0
          ELSE t.h) * MinutesPerHour + t.m
    ELSE t.h * MinutesPerHour + t.m

minutesUntilBooking(bk, t) == bk.date * MinutesPerDay + cancelStartMinutes(bk.startTime) - t

\* a cutoff that lets the booking be cancelled at exactly four hours
withinCutoff_Strict(bk, t) == minutesUntilBooking(bk, t) < CutoffHours * MinutesPerHour

withinCutoff(bk, t) == minutesUntilBooking(bk, t) <= CutoffHours * MinutesPerHour

\* ------------------------------------------------------ document effects
\* A field that only records when something happened (new Date()) is kept
\* as the fact that it has been written; expiry instants are kept as instants.
Stamp(t) == t >= 0

\* Mongoose validation of the enum paths on save; status is not a required
\* path, so the enum validator is not run on undefined and save unsets the field
validates(bk) == /\ bk.status \in Statuses \cup {"undefined"}
                 /\ bk.cancellation.cancelledBy \in {"parent", "nanny", "admin", "null"}

orDefault(v, d) == IF v = "" THEN d ELSE v

\* PUT /api/bookings/:id/status, the document as modified before save
statusSet(bk, status, cancelledBy, cancellationReason, t) ==
  LET b1 == [bk EXCEPT !.status = status] IN
  IF status = "confirmed" THEN [b1 EXCEPT !.confirmedAt = Stamp(t)]
  ELSE IF status = "completed" THEN [b1 EXCEPT !.completedAt = Stamp(t)]
  ELSE IF status = "cancelled"
    THEN [b1 EXCEPT !.cancellation = [cancelledBy |-> orDefault(cancelledBy, "parent"),
                                      reason |-> orDefault(cancellationReason, ""),
                                      cancelledAt |-> Stamp(t)]]
  ELSE b1

\* PUT /api/admin/bookings/:id/status, the document as modified before save
adminStatusSet(bk, status, reason, t) ==
  LET b1 == [bk EXCEPT !.status = status]
      b2 == IF status = "cancelled"
              THEN [b1 EXCEPT !.cancellation =
                      [cancelledBy |-> "admin",
                       reason |-> orDefault(reason, "Cancelled by admin"),
                       cancelledAt |-> Stamp(t)]]
              ELSE b1
  IN IF status = "completed" THEN [b2 EXCEPT !.completedAt = Stamp(t)] ELSE b2

\* a cancel that records the parent whoever asked
cancelled_AlwaysParent(bk, cancelledBy, reason, t) ==
  [bk EXCEPT !.status = "cancelled",
             !.cancellation = [cancelledBy |-> "parent",
                               reason |-> orDefault(reason, ""),
                               cancelledAt |-> Stamp(t)]]

\* PUT /api/bookings/:id/cancel, the document as modified before save
cancelled(bk, cancelledBy, reason, t) ==
  [bk EXCEPT !.status = "cancelled",
             !.cancellation = [cancelledBy |-> orDefault(cancelledBy, "parent"),
                               reason |-> orDefault(reason, ""),
                               cancelledAt |-> Stamp(t)]]

\* an issue that keeps the code already on the booking
otpIssued_KeepsFirst(bk, otp, t) ==
  [bk EXCEPT !.completionVerification =
     [NoVerification EXCEPT !.otp = IF bk.completionVerification.otp = "null" THEN otp
                                    ELSE bk.completionVerification.otp,
                            !.otpExpiry = t + OtpTtl, !.otpVerified = FALSE]]

\* POST /:id/send-completion-otp: the sub-record is replaced as a whole
otpIssued(bk, otp, t) ==
  [bk EXCEPT !.completionVerification =
     [NoVerification EXCEPT !.otp = otp, !.otpExpiry = t + OtpTtl, !.otpVerified = FALSE]]

\* a check that compares the code before it looks at the expiry
otpCheck_MismatchFirst(bk, otp, t) ==
  IF bk.completionVerification.otp = "null" THEN "no-otp"
  ELSE IF bk.completionVerification.otp # otp THEN "invalid-otp"
  ELSE IF t > bk.completionVerification.otpExpiry THEN "expired"
  ELSE ""

\* POST /:id/verify-completion-otp: the failure, "" when the code is accepted
otpCheck(bk, otp, t) ==
  IF bk.completionVerification.otp = "null" THEN "no-otp"
  ELSE IF t > bk.completionVerification.otpExpiry THEN "expired"
  ELSE IF bk.completionVerification.otp # otp THEN "invalid-otp"
  ELSE ""

otpVerified(bk) == [bk EXCEPT !.completionVerification.otpVerified = TRUE]

\* POST /:id/complete: the failure, "" when the booking may be completed
completeCheck(bk) ==
  IF bk.status \notin Completable THEN "bad-status"
  ELSE IF ~bk.completionVerification.otpVerified THEN "not-verified"
  ELSE ""

completed(bk, verificationImage, t) ==
  [bk EXCEPT !.completionVerification.verificationImage = verificationImage,
             !.completionVerification.verifiedAt = Stamp(t),
             !.status = "completed",
             !.completedAt = Stamp(t),
             !.payment.status = "paid",
             !.payment.paidAt = Stamp(t)]

\* POST /:id/generate-qr
qrGenerated(bk, qrToken, t) ==
  [bk EXCEPT !.completionVerification.qrToken = qrToken,
             !.completionVerification.qrExpiry = t + QrTtl]

\* POST /verify-qr: Booking.findOne by token; 0 when no booking holds it
findByToken(db, qrToken) ==
  IF \E i \in DOMAIN db : db[i].completionVerification.qrToken = qrToken
    THEN CHOOSE i \in DOMAIN db :
           /\ db[i].completionVerification.qrToken = qrToken
           /\ \A j \in DOMAIN db :
                db[j].completionVerification.qrToken = qrToken => i <= j
    ELSE 0

\* a check that does not look at the token's expiry
qrCheck_NoExpiry(bk, t) ==
  IF bk.status \notin Completable THEN "bad-status"
  ELSE ""

\* POST /verify-qr: the failure, "" when the token is redeemed
qrCheck(bk, t) ==
  IF t > bk.completionVerification.qrExpiry THEN "expired"
  ELSE IF bk.status \notin Completable THEN "bad-status"
  ELSE ""

\* a redemption that leaves the token on the booking
qrRedeemed_KeepsToken(bk, t) ==
  [bk EXCEPT !.status = "completed",
             !.completedAt = Stamp(t),
             !.completionVerification.otpVerified = TRUE,
             !.completionVerification.verifiedAt = Stamp(t)]

qrRedeemed(bk, t) ==
  [bk EXCEPT !.status = "completed",
             !.completedAt = Stamp(t),
             !.completionVerification.otpVerified = TRUE,
             !.completionVerification.verifiedAt = Stamp(t),
             !.completionVerification.qrToken = NoToken]

\* User.findByIdAndUpdate(nanny, {$inc: ...}); no document, no update
earningsCredited(us, nannyId, totalAmount) ==
  IF nannyId \in DOMAIN us
    THEN [us EXCEPT ![nannyId].nannyProfile.totalJobsCompleted = @ + 1,
                    ![nannyId].nannyProfile.totalEarnings = @ + totalAmount,
                    ![nannyId].nannyProfile.availableBalance = @ + totalAmount]
    ELSE us

\* Transaction.create of POST /:id/complete: the earning record of booking b
earningTransaction(bk, b) ==
  [userId |-> bk.nannyId, type |-> "earning", amount |-> bk.totalAmount,
   status |-> "completed", bookingId |-> b]

\* a save that is applied only while the stored status is the one read
saveApplies_Cas(stored, read) == stored.status = read.status

\* booking.save() sends an update filtered by _id alone: it is applied
\* whatever the stored status has become since the document was read
saveApplies(stored, read) == TRUE

\* -------------------------------------------------------------- handlers
\* Each handler is the outcome of one request on the stored documents:
\* the documents after it and its answer.

\* identity checks that do not look at the provider's role
createCheck_AnyRole(us, parentId, nannyId) ==
  IF parentId \notin DOMAIN us THEN "no-parent"
  ELSE IF nannyId \notin DOMAIN us THEN "no-nanny"
  ELSE ""

\* POST /api/bookings: the failure of the identity checks, "" when they pass
createCheck(us, parentId, nannyId) ==
  IF parentId \notin DOMAIN us THEN "no-parent"
  ELSE IF nannyId \notin DOMAIN us THEN "no-nanny"
  ELSE IF us[nannyId].role # "nanny" THEN "not-nanny"
  ELSE ""

\* POST /api/bookings
postBooking(db, us, parentId, nannyId, date, startTime, endTime, totalAmount) ==
  LET chk == createCheck(us, parentId, nannyId) IN
  IF chk \in {"no-parent", "no-nanny"} THEN Out(db, us, R("create", 0, "", 404, chk))
  ELSE IF chk # "" THEN Out(db, us, R("create", 0, "", 400, chk))
  ELSE IF hasOverlap(db, nannyId, date, startTime, endTime)
    THEN Out(db, us, R("create", 0, "", 400, "overlap"))
  ELSE Out(Append(db, NewBooking(parentId, nannyId, date, startTime, endTime, totalAmount)),
           us, R("create", Len(db) + 1, "", 201, ""))

\* what becomes of a push notification: delivered, answered success false
\* (no token, notifications disabled, an FCM error caught by sendToUser),
\* thrown inside the notify function, or never settled
NotifyOutcomes == {"sent", "failed", "thrown", "pending"}

\* the promise an async notify function returns to its caller
notifyPromise(n) ==
  CASE n = "thrown" -> "rejected"
    [] n = "pending" -> "pending"
    [] OTHER -> "fulfilled"

\* a call the handler awaits: the handler follows the promise
notifyCall_Awaited(n) ==
  CASE notifyPromise(n) = "rejected" -> "throw"
    [] notifyPromise(n) = "pending" -> "block"
    [] OTHER -> "continue"

\* NotificationService.notify...(...).then(...).catch(...): the promise is not
\* awaited and its rejection is consumed by .catch, so the handler goes on
\* to its next statement whatever the promise becomes
notifyCall(n) == "continue"

\* POST /api/bookings with its notification to the provider, sent after
\* Booking.create and before the answer
postBookingNotifying(db, us, parentId, nannyId, date, startTime, endTime, totalAmount, n) ==
  LET out == postBooking(db, us, parentId, nannyId, date, startTime, endTime, totalAmount) IN
  IF ~Accepted(out) THEN out
  ELSE CASE notifyCall(n) = "throw" ->
              Out(out.bookings, out.users, R("create", out.resp.id, "", 500, "error"))
         [] notifyCall(n) = "block" ->
              Out(out.bookings, out.users, R("create", out.resp.id, "", 0, "no-answer"))
         [] OTHER -> out

\* the statuses whose branch of PUT /:id/status notifies
Notifying == {"confirmed", "completed", "cancelled", "rejected"}

\* a status route that lets a booking be completed only once verified
putStatus_Guarded(db, us, b, status, cancelledBy, cancellationReason, t) ==
  IF status \notin Statuses THEN Out(db, us, R("status", b, status, 400, "invalid-status"))
  ELSE IF b \notin DOMAIN db THEN Out(db, us, R("status", b, status, 404, "no-booking"))
  ELSE IF status = "completed" /\ ~db[b].completionVerification.otpVerified
    THEN Out(db, us, R("status", b, status, 400, "not-verified"))
  ELSE Out([db EXCEPT ![b] = statusSet(@, status, cancelledBy, cancellationReason, t)], us,
           R("status", b, status, 200, ""))

\* PUT /api/bookings/:id/status
putStatus(db, us, b, status, cancelledBy, cancellationReason, t) ==
  IF status \notin Statuses THEN Out(db, us, R("status", b, status, 400, "invalid-status"))
  ELSE IF b \notin DOMAIN db THEN Out(db, us, R("status", b, status, 404, "no-booking"))
  ELSE LET bk == statusSet(db[b], status, cancelledBy, cancellationReason, t) IN
    IF ~validates(bk) THEN Out(db, us, R("status", b, status, 500, "validation"))
    ELSE Out([db EXCEPT ![b] = bk], us, R("status", b, status, 200, ""))

\* PUT /api/bookings/:id/status with the notification of its branch, sent
\* when both users are found, before booking.save()
putStatusNotifying(db, us, b, status, cancelledBy, cancellationReason, t, n) ==
  LET out == putStatus(db, us, b, status, cancelledBy, cancellationReason, t) IN
  IF status \notin Notifying \/ b \notin DOMAIN db THEN out
  ELSE IF db[b].parentId \notin DOMAIN us \/ db[b].nannyId \notin DOMAIN us THEN out
  ELSE CASE notifyCall(n) = "throw" -> Out(db, us, R("status", b, status, 500, "error"))
         [] notifyCall(n) = "block" -> Out(db, us, R("status", b, status, 0, "no-answer"))
         [] OTHER -> out

\* PUT /api/admin/bookings/:id/status
adminPutStatus(db, us, b, status, reason, t) ==
  IF b \notin DOMAIN db THEN Out(db, us, R("admin-status", b, status, 404, "no-booking"))
  ELSE LET bk == adminStatusSet(db[b], status, reason, t) IN
    IF ~validates(bk) THEN Out(db, us, R("admin-status", b, status, 500, "validation"))
    ELSE Out([db EXCEPT ![b] = bk], us, R("admin-status", b, status, 200, ""))

\* PUT /api/bookings/:id/cancel
putCancel(db, us, b, cancelledBy, reason, t) ==
  IF b \notin DOMAIN db THEN Out(db, us, R("cancel", b, "", 404, "no-booking"))
  ELSE IF db[b].status \in {"completed", "cancelled"}
    THEN Out(db, us, R("cancel", b, "", 400, "bad-status"))
  ELSE IF withinCutoff(db[b], t) THEN Out(db, us, R("cancel", b, "", 400, "too-late"))
  ELSE LET bk == cancelled(db[b], cancelledBy, reason, t) IN
    IF ~validates(bk) THEN Out(db, us, R("cancel", b, "", 500, "validation"))
    ELSE Out([db EXCEPT ![b] = bk], us, R("cancel", b, "", 200, ""))

\* POST /api/bookings/:id/send-completion-otp; otp is the code drawn
postSendCompletionOtp(db, us, b, otp, t) ==
  IF b \notin DOMAIN db THEN Out(db, us, R("send-otp", b, otp, 404, "no-booking"))
  ELSE IF db[b].status \notin Completable
    THEN Out(db, us, R("send-otp", b, otp, 400, "bad-status"))
  ELSE Out([db EXCEPT ![b] = otpIssued(@, otp, t)], us, R("send-otp", b, otp, 200, ""))

\* POST /api/bookings/:id/verify-completion-otp
postVerifyCompletionOtp(db, us, b, otp, t) ==
  IF otp = "" THEN Out(db, us, R("verify-otp", b, otp, 400, "otp-required"))
  ELSE IF b \notin DOMAIN db THEN Out(db, us, R("verify-otp", b, otp, 404, "no-booking"))
  ELSE LET chk == otpCheck(db[b], otp, t) IN
    IF chk # "" THEN Out(db, us, R("verify-otp", b, otp, 400, chk))
    ELSE Out([db EXCEPT ![b] = otpVerified(@)], us, R("verify-otp", b, otp, 200, ""))

\* POST /api/bookings/:id/complete
postComplete(db, us, b, verificationImage, t) ==
  IF verificationImage = "" THEN Out(db, us, R("complete", b, "", 400, "no-image"))
  ELSE IF b \notin DOMAIN db THEN Out(db, us, R("complete", b, "", 404, "no-booking"))
  ELSE LET chk == completeCheck(db[b]) IN
    IF chk # "" THEN Out(db, us, R("complete", b, "", 400, chk))
    ELSE [Out([db EXCEPT ![b] = completed(@, verificationImage, t)],
              earningsCredited(us, db[b].nannyId, db[b].totalAmount),
              R("complete", b, "", 200, ""))
            EXCEPT !.created = <<earningTransaction(db[b], b)>>]

\* POST /api/bookings/:id/generate-qr; qrToken is the token drawn
postGenerateQr(db, us, b, qrToken, t) ==
  IF b \notin DOMAIN db THEN Out(db, us, R("generate-qr", b, qrToken, 404, "no-booking"))
  ELSE IF db[b].status \notin Completable
    THEN Out(db, us, R("generate-qr", b, qrToken, 400, "bad-status"))
  ELSE Out([db EXCEPT ![b] = qrGenerated(@, qrToken, t)], us,
           R("generate-qr", b, qrToken, 200, ""))

\* POST /api/bookings/verify-qr
postVerifyQr(db, us, qrToken, t) ==
  IF qrToken = NoToken THEN Out(db, us, R("verify-qr", 0, qrToken, 400, "no-token"))
  ELSE LET b == findByToken(db, qrToken) IN
    IF b = 0 THEN Out(db, us, R("verify-qr", 0, qrToken, 404, "invalid-qr"))
    ELSE LET chk == qrCheck(db[b], t) IN
      IF chk # "" THEN Out(db, us, R("verify-qr", b, qrToken, 400, chk))
      ELSE Out([db EXCEPT ![b] = qrRedeemed(@, t)],
               earningsCredited(us, db[b].nannyId, db[b].totalAmount),
               R("verify-qr", b, qrToken, 200, ""))

\* ------------------------------------------------- payments and reviews
\* the signature sent with a payment: absent, the HMAC of the order, another
Signatures == {"", "good", "bad"}
Ratings == {1, 5, 9}

\* booking.payment = {status: 'paid', method: 'online', paidAt: new Date()}
paymentVerified(bk, t) ==
  [bk EXCEPT !.payment = [status |-> "paid", method |-> "online", paidAt |-> Stamp(t)]]

\* a pay-later that also hands the booking to another provider
payLater_Reassigns(bk) ==
  [bk EXCEPT !.payment = [status |-> "pending", method |-> "cash", paidAt |-> FALSE],
             !.nannyId = "n2"]

\* booking.payment = {status: 'pending', method: 'cash'}: the sub-record is
\* replaced, paidAt is gone
payLater(bk) ==
  [bk EXCEPT !.payment = [status |-> "pending", method |-> "cash", paidAt |-> FALSE]]

\* booking.rating.byParent = {score, review, ratedAt}
rated(bk, rating, t) ==
  [bk EXCEPT !.rating = [score |-> rating, ratedAt |-> Stamp(t)]]

\* the reviews stored for a provider, and the sum of their ratings
reviewsOf(rv, nannyId) == {i \in DOMAIN rv : rv[i].nannyId = nannyId}
RECURSIVE ratingSum(_, _)
ratingSum(rv, idx) ==
  IF idx = {} THEN 0
  ELSE LET i == CHOOSE j \in idx : TRUE IN rv[i].rating + ratingSum(rv, idx \ {i})

\* Math.round(avgRating * 10), the average in tenths
avgRating(rv, nannyId) ==
  LET idx == reviewsOf(rv, nannyId)
      k == Cardinality(idx) IN
  (20 * ratingSum(rv, idx) + k) \div (2 * k)

\* User.findByIdAndUpdate(nannyId, {rating, totalReviews}) over the stored reviews
ratingUpdated(us, rv, nannyId) ==
  IF nannyId \in DOMAIN us
    THEN [us EXCEPT ![nannyId].nannyProfile.rating = avgRating(rv, nannyId),
                    ![nannyId].nannyProfile.totalReviews = Cardinality(reviewsOf(rv, nannyId))]
    ELSE us

\* POST /api/payments/verify
postVerifyPayment(db, us, b, signature, t) ==
  IF signature = "" THEN Out(db, us, R("pay-verify", b, signature, 400, "fields-required"))
  ELSE IF signature # "good" THEN Out(db, us, R("pay-verify", b, signature, 400, "bad-signature"))
  ELSE IF b \notin DOMAIN db THEN Out(db, us, R("pay-verify", b, signature, 404, "no-booking"))
  ELSE Out([db EXCEPT ![b] = paymentVerified(@, t)], us, R("pay-verify", b, signature, 200, ""))

\* PUT /api/payments/booking/:bookingId/pay-later
putPayLater(db, us, b) ==
  IF b \notin DOMAIN db THEN Out(db, us, R("pay-later", b, "", 404, "no-booking"))
  ELSE Out([db EXCEPT ![b] = payLater(@)], us, R("pay-later", b, "", 200, ""))

\* POST /api/reviews; rv is the stored reviews
postReview(db, us, rv, b, rating, t) ==
  IF rating \notin 1..5 THEN Out(db, us, R("review", b, rating, 400, "bad-rating"))
  ELSE IF b \notin DOMAIN db THEN Out(db, us, R("review", b, rating, 404, "no-booking"))
  ELSE IF db[b].status # "completed" THEN Out(db, us, R("review", b, rating, 400, "not-completed"))
  ELSE IF \E i \in DOMAIN rv : rv[i].bookingId = b
    THEN Out(db, us, R("review", b, rating, 400, "reviewed-booking"))
  ELSE IF \E i \in DOMAIN rv : rv[i].parentId = db[b].parentId /\ rv[i].nannyId = db[b].nannyId
    THEN Out(db, us, R("review", b, rating, 400, "reviewed-nanny"))
  ELSE LET review == [bookingId |-> b, parentId |-> db[b].parentId,
                      nannyId |-> db[b].nannyId, rating |-> rating] IN
    [Out([db EXCEPT ![b] = rated(@, rating, t)],
         ratingUpdated(us, Append(rv, review), db[b].nannyId),
         R("review", b, rating, 201, ""))
       EXCEPT !.reviewed = <<review>>]

\* ----------------------------------------------------------- withdrawals
\* req.body.amount: a JSON number, a numeric string, or another string
Num(n) == [n |-> n, text |-> FALSE, numeric |-> TRUE]
Str(n) == [n |-> n, text |-> TRUE, numeric |-> TRUE]
NotNumeric == [n |-> 0, text |-> TRUE, numeric |-> FALSE]
MinWithdrawal == 100
\* withdrawals are followed while the withdrawn amount read is at most this
MaxWithdrawn == 999999
Amounts == {Num(50), Num(300), Str(300), Num(600), NotNumeric}
Methods == {"upi", "cheque"}
UserInputs == {"n1", "zz"}

RECURSIVE pow10(_)
pow10(k) == IF k = 0 THEN 1 ELSE 10 * pow10(k - 1)
RECURSIVE digits(_)
digits(n) == IF n < 10 THEN 1 ELSE 1 + digits(n \div 10)

\* (withdrawnAmount || 0) + amount, cast to Number on save: a sum for a
\* number, the decimal digits of both put side by side for a string
plus(w, amount) ==
  IF amount.text THEN w * pow10(digits(amount.n)) + amount.n ELSE w + amount.n

\* the checks of POST /:id/withdraw on the user document read
withdrawCheck(us, u, amount, method) ==
  IF ~amount.numeric THEN "amount-required"
  ELSE IF method \notin {"bank", "upi"} THEN "invalid-method"
  ELSE IF u \notin DOMAIN us THEN "no-user"
  ELSE IF amount.n > us[u].nannyProfile.availableBalance THEN "insufficient"
  ELSE IF amount.n < MinWithdrawal THEN "minimum"
  ELSE ""

\* a withdrawal that is also taken off the total earnings
withdrawn_DebitsEarnings(profile, amount) ==
  [profile EXCEPT !.availableBalance = @ - amount.n,
                  !.withdrawnAmount = plus(@, amount),
                  !.totalEarnings = @ - amount.n]

\* the two fields POST /:id/withdraw assigns on the profile it read
withdrawn(profile, amount) ==
  [profile EXCEPT !.availableBalance = @ - amount.n,
                  !.withdrawnAmount = plus(@, amount)]

\* user.save(): the paths the handler modified are set on the stored user
withdrawalSaved(us, u, read, amount) ==
  IF u \in DOMAIN us
    THEN LET w == withdrawn(read, amount) IN
         [us EXCEPT ![u].nannyProfile.availableBalance = w.availableBalance,
                    ![u].nannyProfile.withdrawnAmount = w.withdrawnAmount,
                    ![u].nannyProfile.totalEarnings =
                       IF w.totalEarnings = read.totalEarnings THEN @ ELSE w.totalEarnings]
    ELSE us

\* Transaction.create of POST /:id/withdraw
withdrawalTransaction(u, amount) ==
  [userId |-> u, type |-> "withdrawal", amount |-> amount.n, status |-> "pending",
   bookingId |-> 0]

\* POST /api/users/:id/withdraw
postWithdraw(db, us, u, amount, method) ==
  LET chk == withdrawCheck(us, u, amount, method) IN
  IF chk = "no-user" THEN Out(db, us, R("withdraw", 0, <<u, amount>>, 404, chk))
  ELSE IF chk # "" THEN Out(db, us, R("withdraw", 0, <<u, amount>>, 400, chk))
  ELSE [Out(db, withdrawalSaved(us, u, us[u].nannyProfile, amount),
            R("withdraw", 0, <<u, amount>>, 200, ""))
          EXCEPT !.created = <<withdrawalTransaction(u, amount)>>]

\* ------------------------------------------------------------ login codes
\* the provider collections a provider login looks the phone number up in
registered(kind, phoneNumber) ==
  CASE kind = "daycare" -> phoneNumber \in DaycarePhones
    [] kind = "eldercare" -> phoneNumber \in ElderPhones
    [] OTHER -> phoneNumber \in NannyPhones \cup DaycarePhones \cup ElderPhones

\* POST /api/auth/send-otp and /resend-otp: OTP.deleteMany then OTP.create
postSendOtp(os, phoneNumber, otp, t) ==
  [otps |-> [os EXCEPT ![phoneNumber] =
               [otp |-> otp, expiresAt |-> t + LoginTtl, isUsed |-> FALSE, attempts |-> 0,
                createdAt |-> t]],
   resp |-> R("send-otp-login", 0, <<phoneNumber, otp>>, 200, "")]

\* OTP.findOne({phoneNumber, isUsed: false}) finds a record
findUnused(os, phoneNumber) == os[phoneNumber].otp # "null" /\ ~os[phoneNumber].isUsed

\* POST /api/auth/verify-otp
postVerifyOtp(os, phoneNumber, otp, t) ==
  LET rec == os[phoneNumber]
      ans(code, msg) == R("verify-otp-login", 0, <<phoneNumber, otp>>, code, msg) IN
  IF ~findUnused(os, phoneNumber) THEN [otps |-> os, resp |-> ans(400, "not-found")]
  ELSE IF rec.expiresAt # NoTime /\ t > rec.expiresAt
    THEN [otps |-> [os EXCEPT ![phoneNumber] = NoOtp], resp |-> ans(400, "expired")]
  ELSE IF rec.attempts >= MaxAttempts
    THEN [otps |-> [os EXCEPT ![phoneNumber] = NoOtp], resp |-> ans(400, "max-attempts")]
  ELSE IF rec.otp # otp
    THEN [otps |-> [os EXCEPT ![phoneNumber].attempts = @ + 1], resp |-> ans(400, "invalid")]
  ELSE [otps |-> [os EXCEPT ![phoneNumber].isUsed = TRUE], resp |-> ans(200, "")]

\* POST /api/providers/auto-login, /daycare/login, /eldercare/login:
\* OTP.findOneAndUpdate({phoneNumber}, {phoneNumber, otp, createdAt}, upsert)
postProviderLogin(os, kind, phoneNumber, otp, t) ==
  LET ans(code, msg) == R("provider-login", 0, <<phoneNumber, otp>>, code, msg) IN
  IF ~registered(kind, phoneNumber) THEN [otps |-> os, resp |-> ans(404, "no-account")]
  ELSE [otps |-> [os EXCEPT ![phoneNumber] =
                    IF @.otp = "null" THEN [NoOtp EXCEPT !.otp = otp, !.createdAt = t]
                    ELSE [@ EXCEPT !.otp = otp, !.createdAt = t]],
        resp |-> ans(200, "")]

\* POST /api/providers/auto-verify, /daycare/verify-otp, /eldercare/verify-otp:
\* OTP.findOne({phoneNumber, otp}), OTP.deleteOne, then the provider lookup
postProviderVerify(os, kind, phoneNumber, otp) ==
  LET ans(code, msg) == R("provider-verify", 0, <<phoneNumber, otp>>, code, msg) IN
  IF os[phoneNumber].otp = "null" \/ os[phoneNumber].otp # otp
    THEN [otps |-> os, resp |-> ans(400, "invalid")]
  ELSE IF ~registered(kind, phoneNumber)
    THEN [otps |-> [os EXCEPT ![phoneNumber] = NoOtp], resp |-> ans(404, "no-provider")]
  ELSE [otps |-> [os EXCEPT ![phoneNumber] = NoOtp], resp |-> ans(200, "")]

\* ----------------------------------------------------------------- state
BookingIds == 1..MaxBookings
Tokens == 1..MaxTokens
TokenInputs == {NoToken} \cup Tokens

\* the store before any request
Init ==
  /\ bookings = <<>>
  /\ users = InitUsers
  /\ transactions = <<>>
  /\ reviews = <<>>
  /\ otps = [p \in Phones |-> NoOtp]
  /\ spent = [p \in Phones |-> "null"]
  /\ now = NowInit
  /\ nextToken = 1
  /\ resp = R("none", 0, "", 0, "")
  /\ ledger = <<>>
  /\ issued = <<>>
  /\ redeemed = {}
  /\ inflight = [r \in 1..MaxInflight |-> Idle]
  /\ quota = [metered |-> TRUE, left |-> MaxOps]

\* one more request is received, while the clients still send requests
Spend ==
  IF quota.metered
    THEN quota.left > 0 /\ quota' = [quota EXCEPT !.left = @ - 1]
    ELSE UNCHANGED quota

\* the outcome of a handler is stored; resp keeps the last accepted answer
Apply(out) ==
  /\ Spend
  /\ bookings' = out.bookings
  /\ users' = out.users
  /\ transactions' = transactions \o out.created
  /\ reviews' = reviews \o out.reviewed
  /\ UNCHANGED <<otps, spent>>
  /\ resp' = IF Accepted(out) THEN out.resp ELSE resp

\* time passes, to a later one of the instants
Tick(instants) ==
  /\ \E t \in instants : t > now /\ now' = t
  /\ UNCHANGED <<bookings, users, transactions, reviews, otps, spent, nextToken, resp, ledger, issued,
                 redeemed, inflight, quota>>

Create(parentId, nannyId, date, startTime, endTime, totalAmount) ==
  \E n \in NotifyOutcomes :
  LET out == postBookingNotifying(bookings, users, parentId, nannyId, date, startTime,
                                  endTime, totalAmount, n)
      stored == Len(out.bookings) > Len(bookings) IN
  /\ stored => Len(bookings) < MaxBookings
  /\ Apply(out)
  /\ ledger' = IF stored THEN Append(ledger, NoLedger) ELSE ledger
  /\ issued' = IF stored THEN Append(issued, NoIssued) ELSE issued
  /\ UNCHANGED <<now, nextToken, redeemed, inflight>>

SetStatus(b, status, cancelledBy, cancellationReason) ==
  /\ \E n \in NotifyOutcomes :
       Apply(putStatusNotifying(bookings, users, b, status, cancelledBy,
                                cancellationReason, now, n))
  /\ UNCHANGED <<now, nextToken, ledger, issued, redeemed, inflight>>

AdminSetStatus(b, status, reason) ==
  /\ Apply(adminPutStatus(bookings, users, b, status, reason, now))
  /\ UNCHANGED <<now, nextToken, ledger, issued, redeemed, inflight>>

Cancel(b, cancelledBy, reason) ==
  /\ Apply(putCancel(bookings, users, b, cancelledBy, reason, now))
  /\ UNCHANGED <<now, nextToken, ledger, issued, redeemed, inflight>>

SendCompletionOtp(b, otp) ==
  LET out == postSendCompletionOtp(bookings, users, b, otp, now) IN
  /\ Apply(out)
  /\ issued' = IF Accepted(out)
                 THEN [issued EXCEPT ![b] =
                         [last |-> otp, prev |-> @.last, at |-> now, qrAt |-> @.qrAt,
                          reissued |-> bookings[b].completionVerification.otpVerified]]
                 ELSE issued
  /\ UNCHANGED <<now, nextToken, ledger, redeemed, inflight>>

VerifyCompletionOtp(b, otp) ==
  LET out == postVerifyCompletionOtp(bookings, users, b, otp, now) IN
  /\ Apply(out)
  /\ issued' = IF Accepted(out) THEN [issued EXCEPT ![b].reissued = FALSE] ELSE issued
  /\ UNCHANGED <<now, nextToken, ledger, redeemed, inflight>>

\* the token drawn from crypto.randomBytes(32) is one never drawn before
GenerateQr(b) ==
  LET out == postGenerateQr(bookings, users, b, nextToken, now) IN
  /\ Accepted(out) => nextToken <= MaxTokens
  /\ Apply(out)
  /\ nextToken' = IF Accepted(out) THEN nextToken + 1 ELSE nextToken
  /\ issued' = IF Accepted(out) THEN [issued EXCEPT ![b].qrAt = now] ELSE issued
  /\ UNCHANGED <<now, ledger, redeemed, inflight>>

Complete(b, verificationImage) ==
  LET out == postComplete(bookings, users, b, verificationImage, now) IN
  /\ Accepted(out) => ledger[b].passed < MaxCompletions
  /\ Apply(out)
  /\ ledger' = IF Accepted(out)
                 THEN [ledger EXCEPT ![b].passed = @ + 1, ![b].okOtp = @ + 1,
                                     ![b].credits = @ + 1]
                 ELSE ledger
  /\ UNCHANGED <<now, nextToken, issued, redeemed, inflight>>

VerifyQr(qrToken) ==
  LET out == postVerifyQr(bookings, users, qrToken, now)
      b == out.resp.id IN
  /\ Accepted(out) => ledger[b].passed < MaxCompletions
  /\ Apply(out)
  /\ ledger' = IF Accepted(out)
                 THEN [ledger EXCEPT ![b].passed = @ + 1, ![b].okQr = @ + 1,
                                     ![b].credits = @ + 1]
                 ELSE ledger
  /\ redeemed' = IF Accepted(out) THEN redeemed \cup {qrToken} ELSE redeemed
  /\ UNCHANGED <<now, nextToken, issued, inflight>>

VerifyPayment(b, signature) ==
  /\ Apply(postVerifyPayment(bookings, users, b, signature, now))
  /\ UNCHANGED <<now, nextToken, ledger, issued, redeemed, inflight>>

PayLater(b) ==
  /\ Apply(putPayLater(bookings, users, b))
  /\ UNCHANGED <<now, nextToken, ledger, issued, redeemed, inflight>>

Review(b, rating) ==
  /\ Apply(postReview(bookings, users, reviews, b, rating, now))
  /\ UNCHANGED <<now, nextToken, ledger, issued, redeemed, inflight>>

Withdraw(u, amount, method) ==
  /\ u \in DOMAIN users => users[u].nannyProfile.withdrawnAmount <= MaxWithdrawn
  /\ Apply(postWithdraw(bookings, users, u, amount, method))
  /\ UNCHANGED <<now, nextToken, ledger, issued, redeemed, inflight>>

\* the timer of POST /:id/withdraw marks the withdrawal transaction completed
WithdrawalSettle(i) ==
  /\ i \in DOMAIN transactions
  /\ transactions[i].type = "withdrawal" /\ transactions[i].status = "pending"
  /\ transactions' = [transactions EXCEPT ![i].status = "completed"]
  /\ UNCHANGED <<bookings, users, reviews, otps, spent, now, nextToken, resp, ledger, issued,
                 redeemed, inflight, quota>>

\* the store and the answer of a login request; spent keeps, per phone
\* number, the code POST /api/auth/verify-otp last accepted, until another
\* code is issued for the number
ApplyLogin(out, spentAfter) ==
  /\ otps' = out.otps
  /\ resp' = IF out.resp.code = 200 THEN out.resp ELSE resp
  /\ spent' = spentAfter
  /\ UNCHANGED <<bookings, users, transactions, reviews, now, nextToken, ledger, issued,
                 redeemed, inflight, quota>>

SendOtp(phoneNumber, otp) ==
  /\ phoneNumber \in Phones
  /\ ApplyLogin(postSendOtp(otps, phoneNumber, otp, now),
                [spent EXCEPT ![phoneNumber] = "null"])

VerifyOtp(phoneNumber, otp) ==
  LET out == postVerifyOtp(otps, phoneNumber, otp, now) IN
  /\ phoneNumber \in Phones
  /\ ApplyLogin(out, IF out.resp.code = 200 THEN [spent EXCEPT ![phoneNumber] = otp]
                     ELSE spent)

ProviderLogin(kind, phoneNumber, otp) ==
  LET out == postProviderLogin(otps, kind, phoneNumber, otp, now) IN
  /\ phoneNumber \in Phones
  /\ ApplyLogin(out, IF out.resp.code = 200 THEN [spent EXCEPT ![phoneNumber] = "null"]
                     ELSE spent)

ProviderVerify(kind, phoneNumber, otp) ==
  /\ phoneNumber \in Phones
  /\ ApplyLogin(postProviderVerify(otps, kind, phoneNumber, otp), spent)

\* the TTL index on createdAt removes a record RecordTtl after its creation
OtpTtlDelete(phoneNumber) ==
  /\ otps[phoneNumber].otp # "null"
  /\ now >= otps[phoneNumber].createdAt + RecordTtl
  /\ otps' = [otps EXCEPT ![phoneNumber] = NoOtp]
  /\ UNCHANGED <<bookings, users, transactions, reviews, spent, now, nextToken, resp, ledger,
                 issued, redeemed, inflight, quota>>

\* ------------------------------------- requests whose storage calls interleave
\* A handler runs from one await to the next; between two awaits of one
\* request the storage calls of other requests may be applied.
HasFree == \E r \in DOMAIN inflight : inflight[r] = Idle
Free == CHOOSE r \in DOMAIN inflight :
          inflight[r] = Idle /\ \A q \in 1..(r - 1) : inflight[q] # Idle
Req(op, phase, b, arg, doc, t) ==
  [op |-> op, phase |-> phase, b |-> b, arg |-> arg, doc |-> doc, t |-> t]

\* POST /api/bookings up to the return of Booking.find: the document to insert
CreateBegin(parentId, nannyId, date, startTime, endTime, totalAmount) ==
  LET out == postBooking(bookings, users, parentId, nannyId, date, startTime, endTime,
                         totalAmount) IN
  /\ Spend
  /\ IF Accepted(out)
       THEN /\ HasFree
            /\ inflight' = [inflight EXCEPT ![Free] =
                 Req("create", "insert", 0, "", out.bookings[Len(out.bookings)], now)]
       ELSE UNCHANGED inflight
  /\ UNCHANGED <<bookings, users, transactions, reviews, otps, spent, now, nextToken, resp, ledger, issued,
                 redeemed>>

\* POST /api/bookings: Booking.create is applied and the request answered
CreateInsert(r) ==
  /\ inflight[r].op = "create" /\ inflight[r].phase = "insert"
  /\ Len(bookings) < MaxBookings
  /\ bookings' = Append(bookings, inflight[r].doc)
  /\ ledger' = Append(ledger, NoLedger)
  /\ issued' = Append(issued, NoIssued)
  /\ inflight' = [inflight EXCEPT ![r] = Idle]
  /\ resp' = R("create", Len(bookings) + 1, "", 201, "")
  /\ UNCHANGED <<users, transactions, reviews, otps, spent, now, nextToken, redeemed, quota>>

\* POST /:id/complete up to the return of Booking.findById
CompleteBegin(b, verificationImage) ==
  LET out == postComplete(bookings, users, b, verificationImage, now) IN
  /\ Spend
  /\ IF Accepted(out)
       THEN /\ HasFree
            /\ ledger[b].passed < MaxCompletions
            /\ inflight' = [inflight EXCEPT ![Free] =
                 Req("complete", "save", b, verificationImage, bookings[b], now)]
            /\ ledger' = [ledger EXCEPT ![b].passed = @ + 1]
       ELSE UNCHANGED <<inflight, ledger>>
  /\ UNCHANGED <<bookings, users, transactions, reviews, otps, spent, now, nextToken, resp, issued, redeemed>>

\* POST /verify-qr up to the return of Booking.findOne
VerifyQrBegin(qrToken) ==
  LET out == postVerifyQr(bookings, users, qrToken, now)
      b == out.resp.id IN
  /\ Spend
  /\ IF Accepted(out)
       THEN /\ HasFree
            /\ ledger[b].passed < MaxCompletions
            /\ inflight' = [inflight EXCEPT ![Free] =
                 Req("verify-qr", "save", b, qrToken, bookings[b], now)]
            /\ ledger' = [ledger EXCEPT ![b].passed = @ + 1]
       ELSE UNCHANGED <<inflight, ledger>>
  /\ UNCHANGED <<bookings, users, transactions, reviews, otps, spent, now, nextToken, resp, issued, redeemed>>

\* booking.save() of either completion handler is applied: the paths the
\* handler modified are written over the stored document
CompletionSave(r) ==
  LET rq == inflight[r] IN
  /\ rq.op \in {"complete", "verify-qr"} /\ rq.phase = "save"
  /\ IF saveApplies(bookings[rq.b], rq.doc)
       THEN /\ bookings' = [bookings EXCEPT ![rq.b] =
                               IF rq.op = "complete" THEN completed(@, rq.arg, rq.t)
                               ELSE qrRedeemed(@, rq.t)]
            /\ redeemed' = IF rq.op = "verify-qr" THEN redeemed \cup {rq.arg} ELSE redeemed
            /\ inflight' = [inflight EXCEPT ![r].phase = "credit"]
       ELSE /\ inflight' = [inflight EXCEPT ![r] = Idle]
            /\ UNCHANGED <<bookings, redeemed>>
  /\ UNCHANGED <<users, transactions, reviews, otps, spent, now, nextToken, resp, ledger, issued, quota>>

\* User.findByIdAndUpdate of either completion handler is applied, then
\* Transaction.create of POST /:id/complete, and the request is answered
CompletionCredit(r) ==
  LET rq == inflight[r] IN
  /\ rq.op \in {"complete", "verify-qr"} /\ rq.phase = "credit"
  /\ users' = earningsCredited(users, rq.doc.nannyId, rq.doc.totalAmount)
  /\ transactions' = IF rq.op = "complete"
                        THEN Append(transactions, earningTransaction(rq.doc, rq.b))
                        ELSE transactions
  /\ ledger' = [ledger EXCEPT ![rq.b].credits = @ + 1,
                              ![rq.b].okOtp = IF rq.op = "complete" THEN @ + 1 ELSE @,
                              ![rq.b].okQr = IF rq.op = "verify-qr" THEN @ + 1 ELSE @]
  /\ inflight' = [inflight EXCEPT ![r] = Idle]
  /\ resp' = R(rq.op, rq.b, rq.arg, 200, "")
  /\ UNCHANGED <<bookings, reviews, otps, spent, now, nextToken, issued, redeemed, quota>>

\* User.findByIdAndUpdate of either completion handler fails after the
\* booking was saved (the store is unreachable, the process stops): the
\* request ends in the catch block, or with no answer, and credits nothing
CompletionFault(r) ==
  LET rq == inflight[r] IN
  /\ rq.op \in {"complete", "verify-qr"} /\ rq.phase = "credit"
  /\ inflight' = [inflight EXCEPT ![r] = Idle]
  /\ UNCHANGED <<bookings, users, transactions, reviews, otps, spent, now, nextToken, resp, ledger,
                 issued, redeemed, quota>>

\* POST /:id/withdraw up to the return of Transaction.create: the user
\* document was read and checked
WithdrawBegin(u, amount, method) ==
  LET out == postWithdraw(bookings, users, u, amount, method) IN
  /\ u \in DOMAIN users => users[u].nannyProfile.withdrawnAmount <= MaxWithdrawn
  /\ Spend
  /\ IF Accepted(out)
       THEN /\ HasFree
            /\ inflight' = [inflight EXCEPT ![Free] =
                 Req("withdraw", "save", 0, amount,
                     [id |-> u, profile |-> users[u].nannyProfile], now)]
            /\ transactions' = transactions \o out.created
       ELSE UNCHANGED <<inflight, transactions>>
  /\ UNCHANGED <<bookings, users, reviews, otps, spent, now, nextToken, resp, ledger, issued, redeemed>>

\* user.save() of POST /:id/withdraw is applied and the request answered
WithdrawSave(r) ==
  LET rq == inflight[r] IN
  /\ rq.op = "withdraw" /\ rq.phase = "save"
  /\ users' = withdrawalSaved(users, rq.doc.id, rq.doc.profile, rq.arg)
  /\ inflight' = [inflight EXCEPT ![r] = Idle]
  /\ resp' = R("withdraw", 0, <<rq.doc.id, rq.arg>>, 200, "")
  /\ UNCHANGED <<bookings, transactions, reviews, otps, spent, now, nextToken, ledger, issued,
                 redeemed, quota>>

\* ---------------------------------------------------------- specifications
\* The store as POST /api/bookings leaves it after one accepted request;
\* the clients then send any number of requests about that booking.
Stored(startTime, endTime, totalAmount, t0) ==
  /\ bookings = <<NewBooking("p1", "n1", 1, startTime, endTime, totalAmount)>>
  /\ ledger = <<NoLedger>>
  /\ issued = <<NoIssued>>
  /\ users = InitUsers
  /\ transactions = <<>>
  /\ reviews = <<>>
  /\ otps = [p \in Phones |-> NoOtp]
  /\ spent = [p \in Phones |-> "null"]
  /\ now = t0
  /\ nextToken = 1
  /\ resp = R("create", 1, "", 201, "")
  /\ redeemed = {}
  /\ inflight = [r \in 1..MaxInflight |-> Idle]
  /\ quota = [metered |-> FALSE, left |-> 0]

OneBooking == Stored(T(9, 0, ""), T(17, 0, ""), 500, NowInit)

Next ==
  \/ Tick(Clock)
  \/ \E s \in StatusInputs, a \in ActorInputs, why \in ReasonInputs : SetStatus(1, s, a, why)
  \/ \E s \in AdminStatusInputs, why \in ReasonInputs : AdminSetStatus(1, s, why)
  \/ \E a \in ActorInputs, why \in ReasonInputs : Cancel(1, a, why)
  \/ \E c \in OtpCodes : SendCompletionOtp(1, c)
  \/ \E c \in OtpCodes : VerifyCompletionOtp(1, c)
  \/ GenerateQr(1)
  \/ \E i \in Images : Complete(1, i)
  \/ \E q \in TokenInputs : VerifyQr(q)

Spec == OneBooking /\ [][Next]_vars

\* The two completion handlers with their storage calls interleaved
NextRace ==
  \/ bookings[1].status = "pending" /\ SetStatus(1, "confirmed", "", "")
  \/ SendCompletionOtp(1, "111111")
  \/ VerifyCompletionOtp(1, "111111")
  \/ GenerateQr(1)
  \/ \E i \in Images : CompleteBegin(1, i)
  \/ \E q \in TokenInputs : VerifyQrBegin(q)
  \/ \E r \in 1..MaxInflight : CompletionSave(r)
  \/ \E r \in 1..MaxInflight : CompletionCredit(r)

SpecRace == OneBooking /\ [][NextRace]_vars

\* Booking creation from the empty store, Booking.find and Booking.create
\* of different requests interleaved, the clients sending MaxOps requests
NextCreate ==
  \/ \E p \in ParentInputs, n \in NannyInputs, d \in {1}, o \in Offers :
       CreateBegin(p, n, d, o[1], o[2], o[3])
  \/ \E r \in 1..MaxInflight : CreateInsert(r)
  \/ \E b \in BookingIds, s \in StatusInputs, a \in ActorInputs, why \in ReasonInputs :
       SetStatus(b, s, a, why)
  \/ \E b \in BookingIds, a \in ActorInputs, why \in ReasonInputs : Cancel(b, a, why)

SpecCreate == Init /\ [][NextCreate]_vars

\* Booking creation from the empty store, one request handled after the
\* other, the clients sending MaxOps requests
NextBook ==
  \/ \E p \in ParentInputs, n \in BookNannies, d \in BookDates, o \in Offers :
       Create(p, n, d, o[1], o[2], o[3])
  \/ \E b \in BookingIds, s \in StatusInputs, a \in ActorInputs, why \in ReasonInputs :
       SetStatus(b, s, a, why)
  \/ \E b \in BookingIds, a \in ActorInputs, why \in ReasonInputs : Cancel(b, a, why)

SpecBook == Init /\ [][NextBook]_vars

\* Cancellation of one stored booking, whose start time is written in one
\* of several forms, at the instants around its cutoff
CancelOffers == { <<T(9, 0, ""), T(17, 0, "")>>,
                  <<T(9, 0, "am"), T(5, 0, "pm")>>,
                  <<T(12, 30, "PM"), T(17, 0, "")>>,
                  <<T(12, 30, "AM"), T(2, 0, "AM")>> }
CancelClock == {NowInit - 9 * MinutesPerHour + 30 + k : k \in 0..MaxFine}
                 \cup Clock
                 \cup {NowInit + 3 * MinutesPerHour + 30 + k : k \in 0..MaxFine}

InitCancel ==
  \E o \in CancelOffers :
    Stored(o[1], o[2], 500, NowInit - 9 * MinutesPerHour + 30)

NextCancel ==
  \/ Tick(CancelClock)
  \/ \E s \in StatusInputs, a \in ActorInputs, why \in ReasonInputs : SetStatus(1, s, a, why)
  \/ \E a \in ActorInputs \cup {"nanny", "bogus"}, why \in ReasonInputs : Cancel(1, a, why)

SpecCancel == InitCancel /\ [][NextCancel]_vars

\* The completion credentials of one stored booking at the instants around
\* their expiry: the code's, OtpTtl after its issue, and the token's, QrTtl
\* after its generation
ExpiryClock == {NowInit}
                 \cup {NowInit + OtpTtl - 1 + k : k \in 0..MaxFine}
                 \cup {NowInit + QrTtl - 1 + k : k \in 0..MaxFine}

NextExpiry ==
  \/ Tick(ExpiryClock)
  \/ \E s \in {"confirmed", "in-progress", "cancelled"} : SetStatus(1, s, "", "")
  \/ \E c \in OtpCodes : SendCompletionOtp(1, c)
  \/ \E c \in VerifyCodes : VerifyCompletionOtp(1, c)
  \/ GenerateQr(1)
  \/ \E q \in TokenInputs : VerifyQr(q)

SpecExpiry == OneBooking /\ [][NextExpiry]_vars

\* ------------------------------------------------------------- properties
\* what a request means by a time string: its hour on the 24-hour clock
Hour24(t) ==
  IF t.mer \in {"AM", "am"} THEN t.h % 12
  ELSE IF t.mer \in {"PM", "pm"} THEN (t.h % 12) + 12
  ELSE t.h
StartInstant(bk) == bk.date * MinutesPerDay + Hour24(bk.startTime) * MinutesPerHour + bk.startTime.m

TransitionTable ==
  ({"pending"} \X {"confirmed", "rejected", "cancelled"})
    \cup ({"confirmed"} \X {"in-progress", "completed", "cancelled"})
    \cup ({"in-progress"} \X {"completed", "cancelled"})

InFlightOn(b) ==
  Cardinality({r \in DOMAIN inflight :
                 inflight[r].op \in {"complete", "verify-qr"} /\ inflight[r].b = b})

\* C1: once a booking's status is completed, cancelled or rejected, no step
\* of any operation changes it.
C1_TerminalIsFinal ==
  [][\A b \in DOMAIN bookings :
       bookings[b].status \in Terminal => bookings'[b].status = bookings[b].status]_vars

\* C2: every step that changes a booking's status follows an edge of the
\* transition table.
C2_FollowsTransitionTable ==
  [][\A b \in DOMAIN bookings :
       bookings'[b].status # bookings[b].status
         => <<bookings[b].status, bookings'[b].status>> \in TransitionTable]_vars

\* C3: the provider is credited the booking's totalAmount and one job exactly
\* once per booking completed through POST /:id/complete or POST /verify-qr:
\* never more than once, and once when such a completion has been answered.
C3_CreditedExactlyOnce ==
  \A b \in DOMAIN bookings :
    LET profile == users[bookings[b].nannyId].nannyProfile IN
    /\ ledger[b].credits <= 1
    /\ ledger[b].okOtp + ledger[b].okQr > 0 => ledger[b].credits = 1
    /\ profile.totalEarnings <= bookings[b].totalAmount
    /\ profile.availableBalance <= bookings[b].totalAmount
    /\ profile.totalJobsCompleted <= 1

\* C4: any two distinct pending or confirmed bookings of one provider on one
\* date have non-overlapping normalized hour intervals.
C4_NoOverlappingBlockingPair ==
  \A a \in DOMAIN bookings, b \in DOMAIN bookings :
    (/\ a # b
     /\ bookings[a].status \in Blocking /\ bookings[b].status \in Blocking
     /\ bookings[a].nannyId = bookings[b].nannyId
     /\ bookings[a].date = bookings[b].date)
    => ~(/\ parseTimeStr(bookings[a].startTime) < parseTimeStr(bookings[b].endTime)
         /\ parseTimeStr(bookings[a].endTime) > parseTimeStr(bookings[b].startTime))

\* C5: nothing after the precondition read stops a completion request: every
\* request that passed the read is either still in flight or has credited the
\* provider its booking's totalAmount, so an OTP-path and a QR-path request
\* that both passed the read credit one booking twice.
C5_PassedReadIsApplied ==
  \A b \in DOMAIN bookings :
    /\ ledger[b].passed = ledger[b].credits + InFlightOn(b)
    /\ users[bookings[b].nannyId].nannyProfile.totalEarnings
         = ledger[b].credits * bookings[b].totalAmount

C5_DoubleCreditReached ==
  \E b \in DOMAIN bookings :
    /\ ledger[b].okOtp = 1 /\ ledger[b].okQr = 1 /\ ledger[b].credits = 2
    /\ users[bookings[b].nannyId].nannyProfile.totalEarnings = 2 * bookings[b].totalAmount

\* C6: for every booking at most one completion request, by either path,
\* ever succeeds.
C6_AtMostOneCompletion ==
  \A b \in DOMAIN bookings : ledger[b].okOtp + ledger[b].okQr <= 1

\* C7: a token that has been redeemed is held by no booking, and a further
\* POST /verify-qr with it is answered 404 and changes neither the bookings
\* nor the users.
C7_RedeemedTokenIsDead ==
  \A q \in redeemed :
    LET out == postVerifyQr(bookings, users, q, now) IN
    /\ \A b \in DOMAIN bookings : bookings[b].completionVerification.qrToken # q
    /\ out.resp.code = 404
    /\ out.bookings = bookings /\ out.users = users

C7_SecondRedeemRefused ==
  \E q \in redeemed :
    /\ resp.op = "verify-qr" /\ resp.code = 200 /\ resp.arg = q
    /\ postVerifyQr(bookings, users, q, now).resp.msg = "invalid-qr"

\* C8: POST /:id/verify-completion-otp accepts no code but the one issued
\* last for the booking; an earlier, different code is refused.
C8_OnlyLatestCodeVerifies ==
  \A b \in DOMAIN bookings, c \in OtpCodes :
    LET out == postVerifyCompletionOtp(bookings, users, b, c, now) IN
    /\ Accepted(out) => c = issued[b].last
    /\ (c = issued[b].prev /\ c # issued[b].last) => out.resp.code = 400

C8_SecondCodeVerified ==
  \E b \in DOMAIN bookings :
    /\ issued[b].prev # "null" /\ issued[b].prev # issued[b].last
    /\ resp.op = "verify-otp" /\ resp.code = 200 /\ resp.arg = issued[b].last
    /\ bookings[b].completionVerification.otpVerified
    /\ postVerifyCompletionOtp(bookings, users, b, issued[b].prev, now).resp.msg = "invalid-otp"

\* C9: after a code is re-issued while the verified flag was true, POST
\* /:id/complete is refused until a verify-completion-otp has succeeded again.
C9_ReissueRequiresReverify ==
  \A b \in DOMAIN bookings, i \in Images :
    issued[b].reissued => ~Accepted(postComplete(bookings, users, b, i, now))

\* C10: PUT /:id/cancel is refused with the booking unchanged whenever the
\* booking's start instant is 240 minutes or less after now, and it cancels a
\* booking that is neither completed nor cancelled when the start is 241
\* minutes or more away.
C10_CancelCutoff ==
  \A b \in DOMAIN bookings, a \in ActorInputs :
    LET out == putCancel(bookings, users, b, a, "", now)
        ahead == StartInstant(bookings[b]) - now IN
    /\ ahead <= CutoffHours * MinutesPerHour =>
         (out.resp.code = 400 /\ out.bookings = bookings /\ out.users = users)
    /\ (ahead > CutoffHours * MinutesPerHour
          /\ bookings[b].status \notin {"completed", "cancelled"}) =>
         (out.resp.code = 200 /\ out.bookings[b].status = "cancelled")

C10_CutoffReached ==
  \E b \in DOMAIN bookings :
    /\ bookings[b].status \notin {"completed", "cancelled"}
    /\ StartInstant(bookings[b]) - now = CutoffHours * MinutesPerHour
    /\ putCancel(bookings, users, b, "", "", now).resp.msg = "too-late"
    /\ bookings[b].startTime.mer # ""

\* C11: every stored booking's status is one of the six defined values, and a
\* status-set request of the user or the admin route that carries any other
\* value leaves the stored bookings unchanged.
C11_StatusInEnum ==
  \A b \in DOMAIN bookings :
    /\ bookings[b].status \in Statuses
    /\ \A s \in AdminStatusInputs \ Statuses :
         /\ putStatus(bookings, users, b, s, "", "", now).bookings = bookings
         /\ adminPutStatus(bookings, users, b, s, "", now).bookings = bookings

\* who may be named as the cancelling party, "" when the body names nobody
CancelActors == {"", "parent", "nanny", "admin"}
CancelReasons == {"", "ill"}

\* C12: PUT /:id/cancel on a completed or cancelled booking is answered with an
\* error and changes nothing; on a booking in another status that starts more
\* than four hours from now it sets status cancelled and records cancelledBy
\* (parent when none is given), the reason and the timestamp, and nothing else.
C12_CancelContract ==
  \A b \in DOMAIN bookings, a \in CancelActors, why \in CancelReasons :
    LET out == putCancel(bookings, users, b, a, why, now) IN
    /\ bookings[b].status \in {"completed", "cancelled"} =>
         (out.resp.code = 400 /\ out.bookings = bookings /\ out.users = users)
    /\ (bookings[b].status \notin {"completed", "cancelled"}
          /\ ~withinCutoff(bookings[b], now)) =>
         /\ out.resp.code = 200
         /\ out.users = users
         /\ out.bookings = [bookings EXCEPT ![b] =
              [@ EXCEPT !.status = "cancelled",
                        !.cancellation = [cancelledBy |-> IF a = "" THEN "parent" ELSE a,
                                          reason |-> why,
                                          cancelledAt |-> TRUE]]]

C12_CancelledByNanny ==
  \E b \in DOMAIN bookings :
    /\ resp.op = "cancel" /\ resp.code = 200
    /\ bookings[b].status = "cancelled"
    /\ bookings[b].cancellation.cancelledBy = "nanny"
    /\ bookings[b].cancellation.cancelledAt
    /\ putCancel(bookings, users, b, "", "", now).resp.msg = "bad-status"

\* the stored bookings that block the hours [from, to) of a provider on a date
Blockers(nannyId, date, from, to) ==
  {i \in DOMAIN bookings :
     /\ bookings[i].nannyId = nannyId /\ bookings[i].date = date
     /\ bookings[i].status \in {"pending", "confirmed"}
     /\ from < Hour24(bookings[i].endTime) /\ to > Hour24(bookings[i].startTime)}

C14_OverlapExactlyWhenBlocked ==
  \A n \in {"n1", "n2"}, d \in BookDates, o \in Offers :
    LET newStart == Hour24(o[1])
        newEnd == Hour24(o[2])
        refused == postBooking(bookings, users, "p1", n, d, o[1], o[2], o[3]).resp.msg
                     = "overlap"
    IN
    /\ refused <=> Blockers(n, d, newStart, newEnd) # {}
    /\ (\A i \in DOMAIN bookings :
          \/ bookings[i].status \in {"completed", "cancelled", "rejected", "in-progress"}
          \/ bookings[i].nannyId # n \/ bookings[i].date # d
          \/ newStart >= Hour24(bookings[i].endTime)
          \/ newEnd <= Hour24(bookings[i].startTime))
         => ~refused

C14_TouchingAndCancelledAccepted ==
  /\ Len(bookings) = 2
  /\ bookings[1].nannyId = "n1" /\ bookings[1].date = 1
  /\ bookings[1].startTime = T(9, 0, "") /\ bookings[1].endTime = T(17, 0, "")
  /\ bookings[1].status = "cancelled"
  /\ bookings[2].nannyId = "n1" /\ bookings[2].date = 1
  /\ bookings[2].startTime = T(5, 0, "pm") /\ bookings[2].status = "pending"
  /\ postBooking(bookings, users, "p1", "n1", 1, T(9, 0, ""), T(17, 0, ""), 500).resp.code = 201
  /\ postBooking(bookings, users, "p1", "n1", 1, T(4, 0, "PM"), T(18, 0, ""), 300).resp.msg
       = "overlap"
  /\ postBooking(bookings, users, "p1", "n2", 1, T(4, 0, "PM"), T(18, 0, ""), 300).resp.code = 201
  /\ postBooking(bookings, users, "p1", "n1", 2, T(4, 0, "PM"), T(18, 0, ""), 300).resp.code = 201

\* C15: POST /:id/complete succeeds only with a proof image, on a booking
\* whose verified flag is true and whose status is confirmed or in-progress;
\* a refused request changes neither bookings nor users; an accepted one sets
\* status completed, the completion timestamp, payment paid with its timestamp
\* and credits the provider; hence a booking for which this operation has just
\* answered success has otpVerified = true.
C15_CompleteContract ==
  /\ \A b \in DOMAIN bookings, i \in Images :
       LET out == postComplete(bookings, users, b, i, now)
           bk == bookings[b]
           ok == /\ i # ""
                 /\ bk.completionVerification.otpVerified
                 /\ bk.status \in {"confirmed", "in-progress"}
       IN
       /\ ~ok => (out.resp.code = 400 /\ out.bookings = bookings /\ out.users = users)
       /\ ok => /\ out.resp.code = 200
                /\ out.bookings[b].status = "completed"
                /\ out.bookings[b].completedAt
                /\ out.bookings[b].payment.status = "paid"
                /\ out.bookings[b].payment.paidAt
                /\ out.bookings[b].completionVerification.otpVerified
                /\ out.users[bk.nannyId].nannyProfile.totalEarnings
                     = users[bk.nannyId].nannyProfile.totalEarnings + bk.totalAmount
  /\ (resp.op = "complete" /\ resp.code = 200) =>
       /\ bookings[resp.id].status = "completed"
       /\ bookings[resp.id].completionVerification.otpVerified

\* C16: POST /:id/verify-completion-otp fails when no code was ever issued,
\* else when now is more than 10 minutes after the issue, else when the code
\* differs from the one issued last, the checks made in that order; a refused
\* request changes nothing; a matching code within the window sets the
\* verified flag and changes nothing else, the status included.
C16_VerifyOtpContract ==
  \A b \in DOMAIN bookings, c \in VerifyCodes :
    LET out == postVerifyCompletionOtp(bookings, users, b, c, now)
        never == issued[b].last = "null"
        past == now > issued[b].at + 10
    IN
    /\ c = "" => out.resp.code = 400
    /\ (c # "" /\ never) => (out.resp.code = 400 /\ out.resp.msg = "no-otp")
    /\ (c # "" /\ ~never /\ past) => (out.resp.code = 400 /\ out.resp.msg = "expired")
    /\ (c # "" /\ ~never /\ ~past /\ c # issued[b].last) =>
         (out.resp.code = 400 /\ out.resp.msg = "invalid-otp")
    /\ (~never /\ ~past /\ c = issued[b].last) =>
         /\ out.resp.code = 200
         /\ out.bookings =
              [bookings EXCEPT ![b].completionVerification.otpVerified = TRUE]
    /\ out.resp.code # 200 => out.bookings = bookings
    /\ out.users = users

C16_VerifiedThenExpired ==
  \E b \in DOMAIN bookings :
    /\ resp.op = "verify-otp" /\ resp.code = 200 /\ resp.arg = issued[b].last
    /\ bookings[b].completionVerification.otpVerified
    /\ bookings[b].status = "confirmed"
    /\ now = issued[b].at + 11
    /\ postVerifyCompletionOtp(bookings, users, b, issued[b].last, now).resp.msg = "expired"
    /\ \E c \in OtpCodes :
         /\ c # issued[b].last
         /\ postVerifyCompletionOtp(bookings, users, b, c, now).resp.msg = "expired"

\* the bookings that hold a token
Holders(q) == {b \in DOMAIN bookings : bookings[b].completionVerification.qrToken = q}

\* C17: POST /verify-qr finds the booking by the token alone; it fails and
\* changes nothing when no booking holds the token, when now is more than 24
\* hours after the token's generation, or when the booking's status is not
\* confirmed or in-progress; otherwise it sets status completed, the
\* completion timestamp, the verified flag and nulls the token.
C17_VerifyQrContract ==
  \A q \in Tokens :
    LET out == postVerifyQr(bookings, users, q, now) IN
    /\ out.resp.code # 200 => (out.bookings = bookings /\ out.users = users)
    /\ Holders(q) = {} => out.resp.code = 404
    /\ \A b \in Holders(q) :
         LET past == now > issued[b].qrAt + 24 * 60
             open == bookings[b].status \in {"confirmed", "in-progress"}
         IN
         /\ (past \/ ~open) => out.resp.code = 400
         /\ (~past /\ open) =>
              /\ out.resp.code = 200
              /\ out.bookings = [bookings EXCEPT ![b] =
                   [@ EXCEPT !.status = "completed",
                             !.completedAt = TRUE,
                             !.completionVerification.otpVerified = TRUE,
                             !.completionVerification.verifiedAt = TRUE,
                             !.completionVerification.qrToken = NoToken]]

C17_TokenExpired ==
  \E q \in Tokens, b \in DOMAIN bookings :
    /\ b \in Holders(q)
    /\ resp.op = "generate-qr" /\ resp.code = 200 /\ resp.arg = q
    /\ bookings[b].status \in {"confirmed", "in-progress"}
    /\ now = issued[b].qrAt + 24 * 60 + 1
    /\ postVerifyQr(bookings, users, q, now).resp.msg = "expired"
\* The requests that notify: creations, and status requests on the bookings
\* they store
NextNotify ==
  \/ \E p \in ParentInputs, c \in NannyInputs \cup {"n2"}, o \in Offers :
       Create(p, c, 1, o[1], o[2], o[3])
  \/ \E b \in 1..MaxBookings, s \in StatusInputs, a \in CancelActors :
       SetStatus(b, s, a, "")

SpecNotify == Init /\ [][NextNotify]_vars

\* the earning transaction records stored for booking b
EarningRecords(b) ==
  {i \in DOMAIN transactions :
     transactions[i].type = "earning" /\ transactions[i].bookingId = b}

\* C18: for every booking, the number of earning transaction records stored
\* for it equals the number of times its provider was credited for it,
\* whichever completion path made the credit
C18_EarningRecordPerCredit ==
  \A b \in DOMAIN bookings : Cardinality(EarningRecords(b)) = ledger[b].credits

C20_CancellationOnlyWhenCancelled ==
  \A b \in DOMAIN bookings :
    bookings[b].cancellation.cancelledBy # "null" => bookings[b].status = "cancelled"

\* Every operation on one stored booking, payments and reviews included
NextFrame ==
  \/ \E s \in {"confirmed", "cancelled"} : SetStatus(1, s, "", "")
  \/ \E s \in {"in-progress", "undefined"} : AdminSetStatus(1, s, "")
  \/ Cancel(1, "", "")
  \/ SendCompletionOtp(1, "111111")
  \/ VerifyCompletionOtp(1, "111111")
  \/ GenerateQr(1)
  \/ Complete(1, "img")
  \/ \E q \in Tokens : VerifyQr(q)
  \/ \E g \in Signatures : VerifyPayment(1, g)
  \/ PayLater(1)
  \/ \E k \in Ratings : Review(1, k)

SpecFrame == OneBooking /\ [][NextFrame]_vars

\* C21: no operation on a stored booking changes its requester or its
\* provider
C21_PartiesImmutable ==
  [][\A b \in DOMAIN bookings :
       /\ b \in DOMAIN bookings'
       /\ bookings'[b].parentId = bookings[b].parentId
       /\ bookings'[b].nannyId = bookings[b].nannyId]_vars

\* a booking that was completed, paid, reviewed and then set to pay later
\* still has the parties it was created with
C21_PaidReviewedSamePartied ==
  /\ bookings[1].status = "completed" /\ bookings[1].rating.score = 5
  /\ Len(reviews) = 1 /\ ledger[1].credits > 0
  /\ resp.op = "pay-later" /\ resp.code = 200
  /\ bookings[1].parentId = "p1" /\ bookings[1].nannyId = "n1"

\* One stored booking completed by either path, its provider withdrawing
NextWallet ==
  \/ SetStatus(1, "confirmed", "", "")
  \/ SendCompletionOtp(1, "111111")
  \/ VerifyCompletionOtp(1, "111111")
  \/ GenerateQr(1)
  \/ Complete(1, "img")
  \/ \E q \in Tokens : VerifyQr(q)
  \/ \E u \in UserInputs, a \in Amounts, m \in Methods : Withdraw(u, a, m)
  \/ \E i \in DOMAIN transactions : WithdrawalSettle(i)

SpecWallet == OneBooking /\ [][NextWallet]_vars

\* the four financial fields of a provider
Financial(u) == users[u].nannyProfile

C23_IssueOnlyWhenCompletable ==
  \A b \in BookingIds :
    /\ \A c \in OtpCodes :
         LET out == postSendCompletionOtp(bookings, users, b, c, now) IN
         /\ out.resp.code = 200
              => b \in DOMAIN bookings /\ bookings[b].status \in {"confirmed", "in-progress"}
         /\ out.resp.code # 200 => out.bookings = bookings
    /\ \A q \in Tokens :
         LET out == postGenerateQr(bookings, users, b, q, now) IN
         /\ out.resp.code = 200
              => b \in DOMAIN bookings /\ bookings[b].status \in {"confirmed", "in-progress"}
         /\ out.resp.code # 200 => out.bookings = bookings

\* a completed booking that holds a verified code: both issue requests are
\* refused with 400
C23_RefusedOnCompleted ==
  /\ bookings[1].status = "completed"
  /\ bookings[1].completionVerification.otp = "111111"
  /\ bookings[1].completionVerification.otpVerified
  /\ postSendCompletionOtp(bookings, users, 1, "222222", now).resp.code = 400
  /\ postGenerateQr(bookings, users, 1, 1, now).resp.code = 400

\* The time strings a request may carry: every 12-hour form 'h:mm AM/PM' in
\* either case and every 24-hour form 'HH:mm', on the hour and on the half
Times12 == {T(h, m, mer) : h \in 1..12, m \in {0, 30}, mer \in {"AM", "PM", "am", "pm"}}
Times24 == {T(h, m, "") : h \in 0..23, m \in {0, 30}}

\* The first booking of the store, requested with every start time
NextTime ==
  \E t \in Times12 \cup Times24 :
    bookings = <<>> /\ Create("p1", "n1", 1, t, T(23, 0, ""), 500)

SpecTime == Init /\ [][NextTime]_vars

\* C24: the normalizer maps a stored 12-hour start time to its hour on the
\* 24-hour clock (12 AM to 0, 1..11 AM to h, 12 PM to 12, 1..11 PM to h + 12)
\* and a 24-hour start time to its hour, whatever the minutes, so two start
\* times that mean the same hour normalize to the same number
C24_NormalizesToHour ==
  /\ \A b \in DOMAIN bookings :
       LET t == bookings[b].startTime IN
       /\ t \in Times12 \cup Times24
       /\ t.mer \in {"AM", "am"} => parseTimeStr(t) = (IF t.h = 12 THEN 0 ELSE t.h)
       /\ t.mer \in {"PM", "pm"} => parseTimeStr(t) = (IF t.h = 12 THEN 12 ELSE t.h + 12)
       /\ t.mer = "" => parseTimeStr(t) = t.h
       /\ parseTimeStr(t) = parseTimeStr([t EXCEPT !.m = 0])
  /\ \A b \in DOMAIN bookings, u \in Times12 \cup Times24 :
       Hour24(u) = Hour24(bookings[b].startTime)
         => parseTimeStr(u) = parseTimeStr(bookings[b].startTime)

\* a booking from half past noon is stored: its start normalizes to 12, as
\* 12:00 does, and midnight normalizes alike in both forms
C24_NoonInBothForms ==
  /\ Len(bookings) = 1
  /\ bookings[1].startTime = T(12, 30, "pm")
  /\ parseTimeStr(bookings[1].startTime) = 12
  /\ parseTimeStr(bookings[1].startTime) = parseTimeStr(T(12, 0, ""))
  /\ parseTimeStr(T(12, 0, "AM")) = parseTimeStr(T(0, 0, ""))

\* a booking for which no completion code and no QR token was ever issued
NeverIssued(b) ==
  /\ issued[b].last = "null" /\ issued[b].qrAt = NoTime
  /\ ~bookings[b].completionVerification.otpVerified

\* C25: PUT /:id/status with status completed is accepted on every stored
\* booking whose verified flag is false and for which no code or token was
\* ever issued; it stores status completed and stamps completedAt
C25_StatusSetSkipsHandshake ==
  \A b \in DOMAIN bookings :
    NeverIssued(b) =>
      LET out == putStatus(bookings, users, b, "completed", "", "", now) IN
      /\ out.resp.code = 200
      /\ out.bookings[b].status = "completed"
      /\ out.bookings[b].completedAt
      /\ ~out.bookings[b].completionVerification.otpVerified

\* a booking was completed by the status route with no handshake
C25_CompletedUnverified ==
  \E b \in DOMAIN bookings :
    /\ NeverIssued(b)
    /\ resp.op = "status" /\ resp.arg = "completed" /\ resp.id = b /\ resp.code = 200
    /\ bookings[b].status = "completed" /\ bookings[b].completedAt

\* C26: an accepted send-completion-otp leaves an unexpired QR token and its
\* expiry as they were stored, and an accepted generate-qr leaves the stored
\* code, its expiry and the verified flag as they were stored
C26_IssuePathsIndependent ==
  \A b \in DOMAIN bookings :
    LET cv == bookings[b].completionVerification IN
    /\ \A c \in OtpCodes :
         LET out == postSendCompletionOtp(bookings, users, b, c, now) IN
         (out.resp.code = 200 /\ cv.qrToken # NoToken /\ now <= cv.qrExpiry)
           => /\ out.bookings[b].completionVerification.qrToken = cv.qrToken
              /\ out.bookings[b].completionVerification.qrExpiry = cv.qrExpiry
    /\ \A q \in Tokens :
         LET out == postGenerateQr(bookings, users, b, q, now) IN
         out.resp.code = 200
           => /\ out.bookings[b].completionVerification.otp = cv.otp
              /\ out.bookings[b].completionVerification.otpExpiry = cv.otpExpiry
              /\ out.bookings[b].completionVerification.otpVerified = cv.otpVerified

\* Withdrawals whose read and save interleave with each other and with the
\* credits of completions
NextWalletRace ==
  \/ SetStatus(1, "confirmed", "", "")
  \/ SendCompletionOtp(1, "111111")
  \/ VerifyCompletionOtp(1, "111111")
  \/ Complete(1, "img")
  \/ \E u \in UserInputs, a \in {Num(50), Num(300)} : WithdrawBegin(u, a, "upi")
  \/ \E r \in 1..MaxInflight : WithdrawSave(r)

SpecWalletRace == OneBooking /\ [][NextWalletRace]_vars

\* C27: the available balance of a provider is never negative, and a
\* withdrawal that is applied debits at most the balance stored when its
\* save is applied
C27_DebitWithinBalance ==
  [][/\ \A u \in DOMAIN users : users'[u].nannyProfile.availableBalance >= 0
     /\ \A r \in DOMAIN inflight :
          (inflight[r].op = "withdraw" /\ inflight'[r] = Idle)
            => inflight[r].arg.n <= users[inflight[r].doc.id].nannyProfile.availableBalance]_vars

\* C28: for every provider, available balance plus withdrawn amount equals
\* total earnings
C28_BalanceConserved ==
  \A u \in DOMAIN users :
    users[u].nannyProfile.availableBalance + users[u].nannyProfile.withdrawnAmount
      = users[u].nannyProfile.totalEarnings

\* The two completion handlers, their storage calls interleaved, with a
\* fault possible between the booking save and the provider update
NextFault ==
  \/ bookings[1].status = "pending" /\ SetStatus(1, "confirmed", "", "")
  \/ SendCompletionOtp(1, "111111")
  \/ VerifyCompletionOtp(1, "111111")
  \/ GenerateQr(1)
  \/ CompleteBegin(1, "img")
  \/ \E q \in Tokens : VerifyQrBegin(q)
  \/ \E r \in 1..MaxInflight : CompletionSave(r)
  \/ \E r \in 1..MaxInflight : CompletionCredit(r)
  \/ \E r \in 1..MaxInflight : CompletionFault(r)

SpecFault == OneBooking /\ [][NextFault]_vars

\* a completion request sent again for booking b is accepted
RetryAccepted(b) ==
  \/ \E i \in Images : Accepted(postComplete(bookings, users, b, i, now))
  \/ \E q \in Tokens :
       LET out == postVerifyQr(bookings, users, q, now) IN
       Accepted(out) /\ out.resp.id = b

\* C29: once no completion request is under way for it, a booking that a
\* completion endpoint has stored as completed has had its provider credited
\* for every completion stored, or a completion request sent again is
\* accepted and applies the credit
C29_CompletedIsCreditedOrRetryable ==
  \A b \in DOMAIN bookings :
    (InFlightOn(b) = 0 /\ bookings[b].status = "completed" /\ ledger[b].passed > 0)
      => (ledger[b].credits = ledger[b].passed \/ RetryAccepted(b))

\* The login routes that share the OTP collection, at the instants around
\* the expiry of a code and the removal of its record

NextLogin ==
  \/ Tick({NowInit, NowInit + LoginTtl + 1, NowInit + RecordTtl})
  \/ \E p \in Phones, c \in OtpCodes : SendOtp(p, c)
  \/ \E p \in Phones, c \in OtpCodes : VerifyOtp(p, c)
  \/ \E k \in Kinds, p \in Phones, c \in OtpCodes : ProviderLogin(k, p, c)
  \/ \E k \in Kinds, p \in Phones, c \in OtpCodes : ProviderVerify(k, p, c)
  \/ \E p \in Phones : OtpTtlDelete(p)

SpecLogin == Init /\ [][NextLogin]_vars

\* C30: while no other code has been issued for a phone number, the code
\* POST /api/auth/verify-otp accepted for it is accepted by no verification
\* endpoint again
C30_UsedCodeAcceptedNowhere ==
  \A p \in Phones :
    spent[p] # "null" =>
      /\ postVerifyOtp(otps, p, spent[p], now).resp.code # 200
      /\ \A k \in Kinds : postProviderVerify(otps, k, p, spent[p]).resp.code # 200

====
